---- MODULE Spec2Model ----
(***************************************************************************)
(* PartSelect chat assistant: the conversation controller (handleSend of   *)
(* the timer-based prototype PartSelectChatAgent and of the fetch-based    *)
(* Home component), the query classifier/composer processQuery, and the    *)
(* message renderer renderMessage of both components.                      *)
(*                                                                         *)
(* Texts the code inspects (the input field, the query) are sequences of   *)
(* one-character strings, so that trim, toLowerCase and includes are       *)
(* computed.  Narrative texts the code only stores are TLA+ strings.       *)
(***************************************************************************)
EXTENDS Integers, Sequences, FiniteSets, TLC

VARIABLES variant, messages, input, isLoading, pending, clock, lastOp,
          unhandled, frags, result, doc, view

vars == <<variant, messages, input, isLoading, pending, clock, lastOp,
          unhandled, frags, result, doc, view>>

(***************************************************************************)
(* Bounds of the model.                                                    *)
(***************************************************************************)
MaxExchanges == 2

MaxClock == 1

MaxFrags == 4

MaxLines == 3

(***************************************************************************)
(* String primitives.                                                      *)
(***************************************************************************)
UpperChars == <<"A", "B", "C", "D", "E", "F", "G", "H", "I", "J", "K", "L", "M", "N", "O", "P", "Q", "R", "S", "T", "U", "V", "W", "X", "Y", "Z">>

LowerChars == <<"a", "b", "c", "d", "e", "f", "g", "h", "i", "j", "k", "l", "m", "n", "o", "p", "q", "r", "s", "t", "u", "v", "w", "x", "y", "z">>

UpperToLower ==
  [c \in {UpperChars[i] : i \in 1..26} |->
     LowerChars[CHOOSE i \in 1..26 : UpperChars[i] = c]]

LowerChar(c) == IF c \in DOMAIN UpperToLower THEN UpperToLower[c] ELSE c

\* String.prototype.toLowerCase
toLowerCase(s) == [i \in 1..Len(s) |-> LowerChar(s[i])]

\* String.prototype.includes (str is the receiver, evaluated once)
includes(s, t) ==
  \E str \in {s} :
    \E i \in 0..(Len(str) - Len(t)) : SubSeq(str, i + 1, i + Len(t)) = t

\* the white space String.prototype.trim strips, as far as the inputs have it
IsSpace(c) == c \in {" ", "\t", "\n"}

\* variant: no trimming
trimNone(s) == s

\* String.prototype.trim
trim(s) ==
  IF \A i \in 1..Len(s) : IsSpace(s[i])
    THEN <<>>
    ELSE LET first == CHOOSE i \in 1..Len(s) :
                        /\ ~IsSpace(s[i])
                        /\ \A j \in 1..(i - 1) : IsSpace(s[j])
             last  == CHOOSE i \in 1..Len(s) :
                        /\ ~IsSpace(s[i])
                        /\ \A j \in (i + 1)..Len(s) : IsSpace(s[j])
         IN  SubSeq(s, first, last)

(***************************************************************************)
(* The literals processQuery looks for.                                    *)
(***************************************************************************)
KwInstall == <<"i", "n", "s", "t", "a", "l", "l">>

IdPart == <<"p", "s", "1", "1", "7", "5", "2", "7", "7", "8">>

KwCompatible == <<"c", "o", "m", "p", "a", "t", "i", "b", "l", "e">>

IdModel == <<"w", "d", "t", "7", "8", "0", "s", "a", "e", "m", "1">>

KwIceMaker == <<"i", "c", "e", " ", "m", "a", "k", "e", "r">>

KwNotWorking == <<"n", "o", "t", " ", "w", "o", "r", "k", "i", "n", "g">>

(***************************************************************************)
(* The payloads processQuery returns (JavaScript object literals).         *)
(***************************************************************************)
InstallationPayload ==
  [type    |-> "installation",
   content |-> "**Installation Guide for Part PS11752778 - Dishwasher Upper Rack Adjuster**...",
   partInfo |-> [partNumber |-> "PS11752778", name |-> "Upper Rack Adjuster",
                 price |-> "$12.99", inStock |-> TRUE]]

\* variant: the compatibility payload also carries a part card
CompatibilityPayloadWithPartInfo ==
  [type    |-> "compatibility",
   content |-> "**Compatibility Check for Model WDT780SAEM1**...",
   partInfo |-> [partNumber |-> "W10350375",
                 name |-> "Dishwasher Upper Rack Assembly",
                 price |-> "$89.95", inStock |-> TRUE],
   products |-> <<
     [partNumber |-> "W10350375", name |-> "Dishwasher Upper Rack Assembly",
      price |-> "$89.95", compatibility |-> "Direct Fit", fixPercentage |-> 95] >>]

CompatibilityPayload ==
  [type    |-> "compatibility",
   content |-> "**Compatibility Check for Model WDT780SAEM1**...",
   products |-> <<
     [partNumber |-> "W10350375", name |-> "Dishwasher Upper Rack Assembly",
      price |-> "$89.95", compatibility |-> "Direct Fit", fixPercentage |-> 95],
     [partNumber |-> "W10195416", name |-> "Dishwasher Spray Arm",
      price |-> "$32.50", compatibility |-> "Direct Fit", fixPercentage |-> 88],
     [partNumber |-> "W10712395", name |-> "Door Latch Assembly",
      price |-> "$67.80", compatibility |-> "Direct Fit", fixPercentage |-> 92] >>]

\* reviews are kept in tenths (4.5 is 45)
TroubleshootingPayload ==
  [type    |-> "troubleshooting",
   content |-> "**Troubleshooting: Ice Maker Not Working - Whirlpool Refrigerator**...",
   troubleshooting |-> <<
     [issue |-> "Water Supply Issue",
      solution |-> "Check if water supply valve is fully open. Inspect water line for kinks or freezing.",
      likelihood |-> "High - 35%"],
     [issue |-> "Faulty Ice Maker Assembly",
      solution |-> "Test the ice maker module. If it doesn't cycle, replacement may be needed.",
      likelihood |-> "High - 30%"],
     [issue |-> "Water Inlet Valve Problem",
      solution |-> "Check for proper water pressure (20-120 PSI). Test valve with multimeter.",
      likelihood |-> "Medium - 20%"] >>,
   recommendedParts |-> <<
     [partNumber |-> "W10190965", name |-> "Ice Maker Assembly",
      price |-> "$124.99", fixPercentage |-> 87, reviews |-> 45],
     [partNumber |-> "W10408179", name |-> "Water Inlet Valve",
      price |-> "$45.50", fixPercentage |-> 78, reviews |-> 43] >>]

GeneralPayload ==
  [type    |-> "general",
   content |-> "I can help you with that! To provide the most accurate information, please specify:..."]

(***************************************************************************)
(* processQuery: ordered rules over the lower-cased query.                 *)
(***************************************************************************)
\* variant: the keyword alone decides
IsInstallationQueryKeywordOnly(lowerQuery) ==
  includes(lowerQuery, KwInstall)

IsInstallationQuery(lowerQuery) ==
  includes(lowerQuery, KwInstall) /\ includes(lowerQuery, IdPart)

IsCompatibilityQuery(lowerQuery) ==
  includes(lowerQuery, KwCompatible) /\ includes(lowerQuery, IdModel)

IsTroubleshootingQuery(lowerQuery) ==
  includes(lowerQuery, KwIceMaker) /\ includes(lowerQuery, KwNotWorking)

\* variant: the compatibility rule tried before the installation rule
processQueryCompatFirst(query) ==
  LET lowerQuery == toLowerCase(query)
  IN  IF IsCompatibilityQuery(lowerQuery) THEN CompatibilityPayload
      ELSE IF IsInstallationQuery(lowerQuery) THEN InstallationPayload
      ELSE IF IsTroubleshootingQuery(lowerQuery) THEN TroubleshootingPayload
      ELSE GeneralPayload

processQuery(query) ==
  LET lowerQuery == toLowerCase(query)
  IN  IF IsInstallationQuery(lowerQuery) THEN InstallationPayload
      ELSE IF IsCompatibilityQuery(lowerQuery) THEN CompatibilityPayload
      ELSE IF IsTroubleshootingQuery(lowerQuery) THEN TroubleshootingPayload
      ELSE GeneralPayload

(***************************************************************************)
(* Queries the classifier is applied to: concatenations of at most         *)
(* MaxFrags fragments.                                                     *)
(***************************************************************************)
FragText ==
  [install    |-> <<"I", "n", "s", "t", "a", "l", "l">>,
   part       |-> <<"P", "S", "1", "1", "7", "5", "2", "7", "7", "8">>,
   compatible |-> <<"c", "o", "m", "p", "a", "t", "i", "b", "l", "e">>,
   model      |-> <<"W", "D", "T", "7", "8", "0", "S", "A", "E", "M", "1">>,
   icemaker   |-> <<"i", "c", "e", " ", "m", "a", "k", "e", "r">>,
   notworking |-> <<"n", "o", "t", " ", "w", "o", "r", "k", "i", "n", "g">>,
   space      |-> <<" ">>,
   otherpart  |-> <<"P", "S", "9", "9", "9">>,
   isnt       |-> <<"i", "s", "n", "'", "t", " ", "w", "o", "r", "k", "i", "n", "g">>,
   longpart   |-> <<"P", "S", "1", "1", "7", "5", "2", "7", "7", "8", "9">>,
   othermodel |-> <<"W", "D", "T", "7", "5", "0", "S", "A", "H", "Z", "0">>]

FragNames == DOMAIN FragText

RECURSIVE QueryText(_)
QueryText(fs) ==
  IF fs = <<>> THEN <<>> ELSE FragText[Head(fs)] \o QueryText(Tail(fs))

FragSeqs == UNION {[1..n -> FragNames] : n \in 0..MaxFrags}

Has(fs, name) == \E i \in 1..Len(fs) : fs[i] = name

NoResult == [type |-> "none"]

\* no entry under render, nothing rendered
NoDoc == [lines |-> <<>>, trailing |-> FALSE, data |-> <<>>]

NoView == [blocks |-> <<>>, panels |-> {}, done |-> FALSE]

(***************************************************************************)
(* SpecQuery: processQuery applied to every query of the bounded set.      *)
(***************************************************************************)
WelcomeAgent == "Hello! I'm your PartSelect assistant for Refrigerator and Dishwasher parts. I can help you with:..."

WelcomeHome == "Hello! I'm your PartSelect assistant for Refrigerator and Dishwasher parts. I can help you with:\n\n-- Installation instructions..."

Welcome(v) == IF v = "timer" THEN WelcomeAgent ELSE WelcomeHome

\* useState initial values of either component
InitialMessages(v, now) ==
  << [type |-> "bot", content |-> Welcome(v), timestamp |-> now] >>

QueryInit ==
  /\ variant = "timer"
  /\ messages = InitialMessages("timer", 0)
  /\ input = <<>>
  /\ isLoading = FALSE
  /\ pending = <<>>
  /\ clock = 0
  /\ lastOp = "init"
  /\ unhandled = FALSE
  /\ frags \in FragSeqs
  /\ result = NoResult
  /\ doc = NoDoc
  /\ view = NoView

ProcessQueryCall ==
  /\ result = NoResult
  /\ result' = processQuery(QueryText(frags))
  /\ UNCHANGED <<variant, messages, input, isLoading, pending, clock,
                 lastOp, unhandled, frags, doc, view>>

QueryNext == ProcessQueryCall

SpecQuery == QueryInit /\ [][QueryNext]_vars

(***************************************************************************)
(* The conversation controller.                                            *)
(***************************************************************************)
QuickInstall == <<"H", "o", "w", " ", "d", "o", " ", "I", " ", "i", "n", "s", "t", "a", "l", "l", " ", "p", "a", "r", "t", " ", "P", "S", "1", "1", "7", "5", "2", "7", "7", "8", "?">>

QuickCompat == <<"I", "s", " ", "t", "h", "i", "s", " ", "p", "a", "r", "t", " ", "c", "o", "m", "p", "a", "t", "i", "b", "l", "e", " ", "w", "i", "t", "h", " ", "m", "y", " ", "W", "D", "T", "7", "8", "0", "S", "A", "E", "M", "1", " ", "m", "o", "d", "e", "l", "?">>

QuickTrouble == <<"M", "y", " ", "W", "h", "i", "r", "l", "p", "o", "o", "l", " ", "i", "c", "e", " ", "m", "a", "k", "e", "r", " ", "i", "s", " ", "n", "o", "t", " ", "w", "o", "r", "k", "i", "n", "g">>

\* the query of each quick action button
quickActions == <<QuickInstall, QuickCompat, QuickTrouble>>

\* values typed into the input field
TypedInputs == { <<>>, <<" ", " ", " ">>, <<" ", "h", "i", " ">>, QuickTrouble }

ErrorText == "Sorry, I encountered an error. Please make sure the backend server is running on port 5001."

CouldNotProcessText == "Sorry, I couldn't process that request."

userMessage(text, now) ==
  [type |-> "user", content |-> text, timestamp |-> now]

errorMessage(now) ==
  [type |-> "bot", content |-> ErrorText, timestamp |-> now]

\* variant: the new entry put first
setMessagesPrepend(prev, m) == <<m>> \o prev

\* variant: the transcript replaced by the new entry
setMessagesReplace(prev, m) == <<m>>

\* setMessages(prev => [...prev, m])
setMessagesAppend(prev, m) == Append(prev, m)

\* variant: the guard without the isLoading test
SendGuardNoLoading(inp, loading) == ~(trim(inp) = <<>>)

\* the guard of handleSend: false means the early return is taken
SendGuard(inp, loading) == ~(trim(inp) = <<>> \/ loading)

\* accepted submissions so far
UserCount(msgs) ==
  Cardinality({i \in 1..Len(msgs) : msgs[i].type = "user"})

RemoveAt(s, i) == SubSeq(s, 1, i - 1) \o SubSeq(s, i + 1, Len(s))

Init ==
  /\ variant \in {"timer", "fetch"}
  /\ clock = 0
  /\ messages = InitialMessages(variant, clock)
  /\ input = <<>>
  /\ isLoading = FALSE
  /\ pending = <<>>
  /\ lastOp = "init"
  /\ unhandled = FALSE
  /\ frags = <<>>
  /\ result = NoResult
  /\ doc = NoDoc
  /\ view = NoView

\* time passes; new Date() reads clock
Tick ==
  /\ clock < MaxClock
  /\ clock' = clock + 1
  /\ lastOp' = "tick"
  /\ UNCHANGED <<variant, messages, input, isLoading, pending, unhandled,
                 frags, result, doc, view>>

\* onChange of the input field.  The handler itself has no guard; the
\* disabled attribute of the view is not relied on, as for handleSend.
SetInput ==
  /\ \E v \in TypedInputs : input' = v
  /\ lastOp' = "input"
  /\ UNCHANGED <<variant, messages, isLoading, pending, clock, unhandled,
                 frags, result, doc, view>>

\* onClick of a quick action, shown while messages.length === 1
QuickAction ==
  /\ variant = "timer"
  /\ Len(messages) = 1
  /\ \E k \in 1..3 : input' = quickActions[k]
  /\ lastOp' = "quick"
  /\ UNCHANGED <<variant, messages, isLoading, pending, clock, unhandled,
                 frags, result, doc, view>>

\* handleSend taking its early return
SendRejected ==
  /\ ~SendGuard(input, isLoading)
  /\ lastOp' = "reject"
  /\ UNCHANGED <<variant, messages, input, isLoading, pending, clock,
                 unhandled, frags, result, doc, view>>

\* handleSend up to its first suspension (setTimeout or await fetch)
SendAccepted ==
  /\ SendGuard(input, isLoading)
  /\ UserCount(messages) < MaxExchanges
  /\ messages' = setMessagesAppend(messages, userMessage(input, clock))
  /\ input' = <<>>
  /\ isLoading' = TRUE
  /\ pending' = Append(pending,
                  [query |-> input,
                   pc    |-> IF variant = "timer" THEN "timer" ELSE "fetch",
                   ok    |-> FALSE])
  /\ lastOp' = "send"
  /\ UNCHANGED <<variant, clock, unhandled, frags, result, doc, view>>

\* botMessage of the prototype's timer callback
timerBotMessage(response, now) ==
  [type |-> "bot", content |-> response.content, data |-> response,
   timestamp |-> now]

\* variant: isLoading is not cleared
timerCallbackKeepsLoading(msgs, query, now) ==
  [messages  |-> setMessagesAppend(msgs,
                   timerBotMessage(processQuery(query), now)),
   isLoading |-> TRUE]

\* variant: the callback reads the input field as it is when the timer fires
timerCallbackReadsInput(msgs, query, now) ==
  [messages  |-> setMessagesAppend(msgs,
                   timerBotMessage(processQuery(input), now)),
   isLoading |-> FALSE]

\* the setTimeout callback of the prototype's handleSend
timerCallback(msgs, query, now) ==
  [messages  |-> setMessagesAppend(msgs,
                   timerBotMessage(processQuery(query), now)),
   isLoading |-> FALSE]

TimerFire ==
  /\ \E i \in 1..Len(pending) :
       /\ pending[i].pc = "timer"
       /\ LET r == timerCallback(messages, pending[i].query, clock)
          IN  /\ messages' = r.messages
              /\ isLoading' = r.isLoading
       /\ pending' = RemoveAt(pending, i)
  /\ lastOp' = "timer"
  /\ UNCHANGED <<variant, input, clock, unhandled, frags, result, doc, view>>

(***************************************************************************)
(* The fetch-based handleSend after its suspensions.  A parsed body is     *)
(* [kind |-> "null"] or [kind |-> "object", obj |-> the object].           *)
(***************************************************************************)
JsonBodies ==
  { [kind |-> "null"],
    [kind |-> "object", obj |-> [response |-> "The part fits your model."]],
    [kind |-> "object", obj |-> [response |-> ""]],
    [kind |-> "object", obj |-> [error |-> "Internal Server Error"]],
    [kind |-> "object",
     obj  |-> [response |-> "Here are parts that may fix it.",
               recommendedParts |-> <<
                 [partNumber |-> "W10190965", name |-> "Ice Maker Assembly",
                  price |-> "$124.99", fixPercentage |-> 150,
                  reviews |-> 60] >>]] }

\* data.response || "Sorry, I couldn't process that request."
responseOrDefault(data) ==
  IF "response" \in DOMAIN data /\ data.response # ""
    THEN data.response
    ELSE CouldNotProcessText

fetchBotMessage(data, now) ==
  [type |-> "bot", content |-> responseOrDefault(data), data |-> data,
   timestamp |-> now]

\* variant: the error is not caught
catchBlockRethrow(msgs, now) == [messages |-> msgs, unhandled |-> TRUE]

\* the catch block
catchBlock(msgs, now) ==
  [messages |-> setMessagesAppend(msgs, errorMessage(now)),
   unhandled |-> FALSE]

\* variant: isLoading left as it is
finallyBlockKeep(loading) == loading

\* the finally block: setIsLoading(false)
finallyBlock(loading) == FALSE

\* the try block from the resolution of response.json() on; reading
\* data.response of null throws into the catch block
afterJson(msgs, body, now) ==
  IF body.kind = "null"
    THEN catchBlock(msgs, now)
    ELSE [messages  |-> setMessagesAppend(msgs, fetchBotMessage(body.obj, now)),
          unhandled |-> FALSE]

\* sendChatMessage of utils/api.js throws unless res.ok; handleSend calls
\* fetch directly and never consults the status
sendChatMessageThrows(ok) == ~ok

\* fetch resolves with a response of either status class
FetchResolve ==
  /\ \E i \in 1..Len(pending), ok \in BOOLEAN :
       /\ pending[i].pc = "fetch"
       /\ pending' = [pending EXCEPT ![i].pc = "json", ![i].ok = ok]
  /\ lastOp' = "fetch_resolve"
  /\ UNCHANGED <<variant, messages, input, isLoading, clock, unhandled,
                 frags, result, doc, view>>

\* fetch rejects (network error)
FetchReject ==
  /\ \E i \in 1..Len(pending) :
       /\ pending[i].pc = "fetch"
       /\ LET r == catchBlock(messages, clock)
          IN  /\ messages' = r.messages
              /\ unhandled' = (unhandled \/ r.unhandled)
       /\ pending' = RemoveAt(pending, i)
  /\ isLoading' = finallyBlock(isLoading)
  /\ lastOp' = "fetch_reject"
  /\ UNCHANGED <<variant, input, clock, frags, result, doc, view>>

\* response.json() resolves with the parsed body
JsonResolve ==
  /\ \E i \in 1..Len(pending), body \in JsonBodies :
       /\ pending[i].pc = "json"
       /\ LET r == afterJson(messages, body, clock)
          IN  /\ messages' = r.messages
              /\ unhandled' = (unhandled \/ r.unhandled)
       /\ pending' = RemoveAt(pending, i)
  /\ isLoading' = finallyBlock(isLoading)
  /\ lastOp' = "json_resolve"
  /\ UNCHANGED <<variant, input, clock, frags, result, doc, view>>

\* response.json() rejects (the body is not JSON)
JsonReject ==
  /\ \E i \in 1..Len(pending) :
       /\ pending[i].pc = "json"
       /\ LET r == catchBlock(messages, clock)
          IN  /\ messages' = r.messages
              /\ unhandled' = (unhandled \/ r.unhandled)
       /\ pending' = RemoveAt(pending, i)
  /\ isLoading' = finallyBlock(isLoading)
  /\ lastOp' = "json_reject"
  /\ UNCHANGED <<variant, input, clock, frags, result, doc, view>>

Next ==
  \/ Tick
  \/ SetInput
  \/ QuickAction
  \/ SendRejected
  \/ SendAccepted
  \/ TimerFire
  \/ FetchResolve
  \/ FetchReject
  \/ JsonResolve
  \/ JsonReject

Spec == Init /\ [][Next]_vars

\* every scheduled timer fires and every started fetch or body read settles
FairSpec ==
  /\ Init
  /\ [][Next]_vars
  /\ WF_vars(TimerFire)
  /\ WF_vars(FetchResolve \/ FetchReject)
  /\ WF_vars(JsonResolve \/ JsonReject)

(***************************************************************************)
(* renderMessage of a bot entry: the line renderer of the prototype and    *)
(* the attachment panels of both components.                               *)
(***************************************************************************)
Newline == "\n"

BoldMarker == <<"*", "*">>

\* the character U+2022, written "u2022" (one element of a text)
BulletChar == "u2022"

BulletMarker == <<BulletChar>>

VideoLabel == <<"[", "V", "i", "e", "w", " ", "V", "i", "d", "e", "o", " ", "T", "u", "t", "o", "r", "i", "a", "l", "]">>

Digits == {"0", "1", "2", "3", "4", "5", "6", "7", "8", "9"}

\* String.prototype.split('\n')
RECURSIVE split(_)
split(s) ==
  IF \A i \in 1..Len(s) : s[i] # Newline
    THEN <<s>>
    ELSE LET k == CHOOSE i \in 1..Len(s) :
                    s[i] = Newline /\ \A j \in 1..(i - 1) : s[j] # Newline
         IN  <<SubSeq(s, 1, k - 1)>> \o split(SubSeq(s, k + 1, Len(s)))

startsWith(s, p) == Len(s) >= Len(p) /\ SubSeq(s, 1, Len(p)) = p

endsWith(s, p) ==
  Len(s) >= Len(p) /\ SubSeq(s, Len(s) - Len(p) + 1, Len(s)) = p

\* line.replace(/\*\*/g, '')
RECURSIVE removeBold(_)
removeBold(s) ==
  IF Len(s) < 2 THEN s
  ELSE IF SubSeq(s, 1, 2) = BoldMarker THEN removeBold(SubSeq(s, 3, Len(s)))
  ELSE <<Head(s)>> \o removeBold(Tail(s))

\* line.trim().match(/^\d+\./)
matchesNumbered(line) ==
  \E t \in {trim(line)} :
    \E k \in 1..(Len(t) - 1) :
      /\ \A j \in 1..k : t[j] \in Digits
      /\ t[k + 1] = "."

\* line.match(/\[(.*?)\]/)[1], for a line that has a bracket pair
firstBracketLabel(line) ==
  LET open  == CHOOSE i \in 1..Len(line) :
                 /\ line[i] = "["
                 /\ \E j \in (i + 1)..Len(line) : line[j] = "]"
                 /\ \A h \in 1..(i - 1) :
                      ~(line[h] = "[" /\ \E j \in (h + 1)..Len(line) : line[j] = "]")
      close == CHOOSE j \in (open + 1)..Len(line) :
                 /\ line[j] = "]"
                 /\ \A h \in (open + 1)..(j - 1) : line[h] # "]"
  IN  SubSeq(line, open + 1, close - 1)

Block(kind, text) == [kind |-> kind, text |-> text]

\* variant: the bullet block keeps the text after the marker only
renderLineStripsBullet(line) ==
  IF startsWith(line, BoldMarker) /\ endsWith(line, BoldMarker)
    THEN Block("heading", removeBold(line))
  ELSE IF startsWith(line, BulletMarker)
    THEN Block("bullet", trim(SubSeq(line, 2, Len(line))))
  ELSE IF matchesNumbered(line) THEN Block("numbered", line)
  ELSE IF includes(line, VideoLabel)
    THEN Block("link", firstBracketLabel(line))
  ELSE IF line # <<>> THEN Block("paragraph", line)
  ELSE Block("blank", <<>>)

\* the callback of message.content.split('\n').map
renderLine(line) ==
  IF startsWith(line, BoldMarker) /\ endsWith(line, BoldMarker)
    THEN Block("heading", removeBold(line))
  ELSE IF startsWith(line, BulletMarker) THEN Block("bullet", line)
  ELSE IF matchesNumbered(line) THEN Block("numbered", line)
  ELSE IF includes(line, VideoLabel)
    THEN Block("link", firstBracketLabel(line))
  ELSE IF line # <<>> THEN Block("paragraph", line)
  ELSE Block("blank", <<>>)

renderContent(content) ==
  LET lines == split(content)
  IN  [i \in 1..Len(lines) |-> renderLine(lines[i])]

\* message.data?.field as a condition: the field is present
present(data, field) == field \in DOMAIN data

\* the attachment panels of the prototype's renderMessage
agentPanels(data) ==
  (IF present(data, "partInfo") THEN {"partCard"} ELSE {})
  \cup (IF present(data, "products") THEN {"productList"} ELSE {})
  \cup (IF present(data, "troubleshooting") THEN {"diagnosisSteps"} ELSE {})
  \cup (IF present(data, "troubleshooting")
           /\ present(data, "recommendedParts")
          THEN {"recommendedParts"} ELSE {})

\* the attachment panels of the Home component's renderMessage
homePanels(data) ==
  IF present(data, "partInfo") THEN {"partCard"} ELSE {}

(***************************************************************************)
(* SpecRender: renderMessage applied to one bot entry.  The entry's text   *)
(* is the lines of doc joined by newlines, with or without a final one.    *)
(***************************************************************************)
RenderLines ==
  { <<>>,
    <<"*", "*", "T", "i", "t", "l", "e", "*", "*">>,
    <<BulletChar, " ", "i", "t", "e", "m">>,
    <<"1", ".", " ", "s", "t", "e", "p">>,
    <<" ", " ", "2", ".", " ", "x">>,
    <<"[", "V", "i", "e", "w", " ", "V", "i", "d", "e", "o", " ", "T", "u", "t", "o", "r", "i", "a", "l", "]", "(", "u", ")">>,
    <<"[", "B", "u", "y", "]", "(", "u", ")">>,
    <<"*", "*", "a", "*", "*", " ", "o", "r", " ", "*", "*", "b", "*", "*">>,
    <<"t", "e", "x", "t">> }

LineSeqs == UNION {[1..n -> RenderLines] : n \in 1..MaxLines}

NoData == <<>>

RenderData ==
  {NoData, InstallationPayload, CompatibilityPayload, TroubleshootingPayload,
   GeneralPayload}

RECURSIVE joinLines(_)
joinLines(ls) ==
  IF Len(ls) = 1 THEN ls[1]
  ELSE ls[1] \o <<Newline>> \o joinLines(Tail(ls))

\* the content of the entry under render
DocContent ==
  joinLines(doc.lines) \o (IF doc.trailing THEN <<Newline>> ELSE <<>>)

RenderInit ==
  /\ variant \in {"timer", "fetch"}
  /\ messages = InitialMessages(variant, 0)
  /\ input = <<>>
  /\ isLoading = FALSE
  /\ pending = <<>>
  /\ clock = 0
  /\ lastOp = "init"
  /\ unhandled = FALSE
  /\ frags = <<>>
  /\ result = NoResult
  /\ doc \in [lines : LineSeqs, trailing : BOOLEAN, data : RenderData]
  /\ view = NoView

\* renderMessage of the prototype
RenderAgent ==
  /\ variant = "timer"
  /\ ~view.done
  /\ view' = [blocks |-> renderContent(DocContent),
              panels |-> agentPanels(doc.data),
              done   |-> TRUE]
  /\ UNCHANGED <<variant, messages, input, isLoading, pending, clock,
                 lastOp, unhandled, frags, result, doc>>

\* renderMessage of the Home component; the text goes to ReactMarkdown
RenderHome ==
  /\ variant = "fetch"
  /\ ~view.done
  /\ view' = [blocks |-> <<Block("markdown", DocContent)>>,
              panels |-> homePanels(doc.data),
              done   |-> TRUE]
  /\ UNCHANGED <<variant, messages, input, isLoading, pending, clock,
                 lastOp, unhandled, frags, result, doc>>

RenderNext == RenderAgent \/ RenderHome

SpecRender == RenderInit /\ [][RenderNext]_vars

(***************************************************************************)
(* Properties.                                                             *)
(***************************************************************************)
IsBlank(s) == \A i \in 1..Len(s) : s[i] = " "

IsPrefixOf(s, t) == Len(s) <= Len(t) /\ SubSeq(t, 1, Len(s)) = s

LastMessage == messages[Len(messages)]

\* the step appends exactly one bot entry with the fixed error text
AppendsErrorEntry ==
  /\ Len(messages') = Len(messages) + 1
  /\ IsPrefixOf(messages, messages')
  /\ messages'[Len(messages')].type = "bot"
  /\ messages'[Len(messages')].content = ErrorText

\* C1: while an answer is awaited no submission is accepted, at most one
\* dispatch is pending, and a rejected submission leaves the transcript and
\* the pending dispatch as they were.
C1_OneDispatchAtATime ==
  [][ /\ Len(pending') <= 1
      /\ (isLoading \/ pending # <<>>) =>
           /\ lastOp' # "send"
           /\ (lastOp' = "reject" =>
                 messages' = messages /\ pending' = pending) ]_vars

C1_Witness ==
  /\ lastOp = "reject"
  /\ isLoading
  /\ Len(pending) = 1
  /\ input # <<>>

\* C2: when response.json() settles on a response whose status was not a
\* success, exactly one bot entry with the fixed error text is appended and
\* isLoading becomes false.
C2_NonSuccessStatusIsFailure ==
  [][ ( /\ Len(pending) = 1
        /\ pending[1].pc = "json"
        /\ ~pending[1].ok
        /\ lastOp' \in {"json_resolve", "json_reject"} )
      => (AppendsErrorEntry /\ ~isLoading') ]_vars

\* C3: handleSend on an empty or white-space-only input while not loading
\* takes the early return: no entry, no dispatch, isLoading stays false.
C3_BlankInputIsNoOp ==
  [][ (~isLoading /\ IsBlank(input) /\ lastOp' \in {"send", "reject"})
      => /\ lastOp' = "reject"
         /\ messages' = messages
         /\ pending' = pending
         /\ isLoading' = FALSE ]_vars

C3_Witness ==
  /\ lastOp = "reject"
  /\ ~isLoading
  /\ pending = <<>>
  /\ input = <<" ", " ", " ">>

\* C4: a rejected fetch or a body that is not JSON ends in exactly one bot
\* entry with the fixed error text, isLoading false, and no error thrown
\* out of handleSend.
C4_FailureAbsorbed ==
  [][ lastOp' \in {"fetch_reject", "json_reject"}
      => (AppendsErrorEntry /\ ~isLoading' /\ ~unhandled') ]_vars

C4_Witness ==
  /\ lastOp = "json_reject"
  /\ LastMessage.type = "bot"
  /\ LastMessage.content = ErrorText
  /\ ~isLoading
  /\ Len(messages) >= 5

\* C5: the transcript is the welcome entry followed by alternating user and
\* bot entries, and timestamps never decrease along it.
C5_TranscriptOrder ==
  /\ messages[1].type = "bot"
  /\ messages[1].content = Welcome(variant)
  /\ \A i \in 2..Len(messages) :
       messages[i].type = (IF i % 2 = 0 THEN "user" ELSE "bot")
  /\ \A i \in 1..(Len(messages) - 1) :
       messages[i].timestamp <= messages[i + 1].timestamp

C5_Witness ==
  /\ Len(messages) >= 5
  /\ messages[2].timestamp < messages[3].timestamp
  /\ messages[1].timestamp = messages[2].timestamp

\* C6: an awaited answer is eventually followed by isLoading false, and the
\* step that ends the wait appends exactly one entry, a bot entry.
C6_EventuallyAnswered ==
  /\ isLoading ~> ~isLoading
  /\ [][ (isLoading /\ ~isLoading')
          => /\ Len(messages') = Len(messages) + 1
             /\ IsPrefixOf(messages, messages')
             /\ messages'[Len(messages')].type = "bot" ]_vars

C6_Witness ==
  /\ ~isLoading
  /\ Len(messages) >= 5
  /\ lastOp \in {"timer", "json_resolve", "fetch_reject"}

\* C7: every step keeps the existing entries in place and unchanged; the
\* transcript only grows at its end.
C7_AppendOnly == [][IsPrefixOf(messages, messages')]_vars

C7_Witness ==
  /\ Len(messages) >= 4
  /\ lastOp \in {"input", "reject", "send", "timer", "json_resolve"}

\* the rules as processQuery states them: co-occurrence of two substrings
\* (the text of longpart contains the configured part number)
RuleInstallation ==
  Has(frags, "install") /\ (Has(frags, "part") \/ Has(frags, "longpart"))

RuleCompatibility == Has(frags, "compatible") /\ Has(frags, "model")

RuleTroubleshooting == Has(frags, "icemaker") /\ Has(frags, "notworking")

\* C8: when several rules match, the first of installation, compatibility,
\* troubleshooting wins; in particular installation beats compatibility.
C8_RuleOrder ==
  result # NoResult =>
    /\ RuleInstallation => result.type = "installation"
    /\ (~RuleInstallation /\ RuleCompatibility)
         => result.type = "compatibility"
    /\ (~RuleInstallation /\ ~RuleCompatibility /\ RuleTroubleshooting)
         => result.type = "troubleshooting"

C8_Witness ==
  /\ result # NoResult
  /\ result.type = "installation"
  /\ RuleInstallation
  /\ RuleCompatibility

\* C9: a query matching none of the three rules is answered general: the
\* empty query, a keyword without its identifier, or half a symptom pair.
C9_FallbackGeneral ==
  (result # NoResult
     /\ ~RuleInstallation /\ ~RuleCompatibility /\ ~RuleTroubleshooting)
  => result = GeneralPayload

C9_Witness ==
  /\ result = GeneralPayload
  /\ Has(frags, "install")
  /\ Has(frags, "otherpart")
  /\ Has(frags, "icemaker")

\* C10: a payload carries partInfo iff it is installation, products iff
\* compatibility, troubleshooting steps iff troubleshooting,
\* recommendedParts only if troubleshooting, and nothing if general.
C10_AttachmentsMatchTag ==
  result # NoResult =>
    /\ ("partInfo" \in DOMAIN result) <=> (result.type = "installation")
    /\ ("products" \in DOMAIN result) <=> (result.type = "compatibility")
    /\ ("troubleshooting" \in DOMAIN result)
         <=> (result.type = "troubleshooting")
    /\ ("recommendedParts" \in DOMAIN result)
         => (result.type = "troubleshooting")
    /\ ("products" \in DOMAIN result) => Len(result.products) >= 1
    /\ ("troubleshooting" \in DOMAIN result)
         => Len(result.troubleshooting) >= 1
    /\ (result.type = "general") => (DOMAIN result = {"type", "content"})
    /\ result.type \in {"installation", "compatibility", "troubleshooting",
                        "general"}

C10_Witness ==
  /\ result # NoResult
  /\ result.type = "troubleshooting"
  /\ "recommendedParts" \in DOMAIN result

\* the part number a fragment names
FragPartNumber ==
  [part |-> "PS11752778", otherpart |-> "PS999", longpart |-> "PS117527789"]

NamesUnrecognizedOnly ==
  /\ ~Has(frags, "part")
  /\ ~Has(frags, "model")
  /\ \/ Has(frags, "install")
        /\ (Has(frags, "otherpart") \/ Has(frags, "longpart"))
     \/ Has(frags, "compatible") /\ Has(frags, "othermodel")

\* C11: a query that asks to install a part other than the configured one,
\* or asks about compatibility with another model (and has no symptom
\* pair), gets the general payload, which has no attachment.
C11_UnrecognizedIdentifierGeneral ==
  (result # NoResult /\ NamesUnrecognizedOnly /\ ~RuleTroubleshooting)
  => result = GeneralPayload

\* C13: an installation payload's partNumber is a part number the query
\* names, a compatibility payload has at least one product, and a
\* troubleshooting payload has at least one step, each with a likelihood.
C13_TypedPayloadResolved ==
  result # NoResult =>
    /\ (result.type = "installation") =>
         \E i \in 1..Len(frags) :
           /\ frags[i] \in DOMAIN FragPartNumber
           /\ FragPartNumber[frags[i]] = result.partInfo.partNumber
    /\ (result.type = "compatibility") => Len(result.products) >= 1
    /\ (result.type = "troubleshooting") =>
         /\ Len(result.troubleshooting) >= 1
         /\ \A i \in 1..Len(result.troubleshooting) :
              result.troubleshooting[i].likelihood # ""

\* fixPercentage within [0,100] and reviews (in tenths) within [0,5]
PartsInRange(parts) ==
  \A i \in 1..Len(parts) :
    /\ parts[i].fixPercentage \in 0..100
    /\ ("reviews" \in DOMAIN parts[i]) => parts[i].reviews \in 0..50

DataInRange(data) ==
  /\ ("products" \in DOMAIN data) => PartsInRange(data.products)
  /\ ("recommendedParts" \in DOMAIN data)
       => PartsInRange(data.recommendedParts)

\* C12: no bot entry of the transcript carries a fix rate outside [0,100] or
\* a review score outside [0,5].
C12_OutOfRangeNeverStored ==
  \A i \in 1..Len(messages) :
    (messages[i].type = "bot" /\ "data" \in DOMAIN messages[i])
      => DataInRange(messages[i].data)

TitleItemStepText ==
  <<"*", "*", "T", "i", "t", "l", "e", "*", "*", Newline,
    BulletChar, " ", "i", "t", "e", "m", Newline,
    "1", ".", " ", "s", "t", "e", "p", Newline>>

AgentRendered == view.done /\ variant = "timer"

\* C14: the text of the three lines **Title**, bullet item, 1. step, with a
\* final newline, renders to exactly heading(Title), bullet, numbered.
C14_TitleItemStepBlocks ==
  (AgentRendered /\ DocContent = TitleItemStepText)
  => view.blocks =
       << Block("heading", <<"T", "i", "t", "l", "e">>),
          Block("bullet", <<BulletChar, " ", "i", "t", "e", "m">>),
          Block("numbered", <<"1", ".", " ", "s", "t", "e", "p">>) >>

\* the block a display text renders to when it stands alone
AloneKindIs(text, kind) ==
  /\ Len(renderContent(text)) = 1
  /\ renderContent(text)[1].kind = kind

\* C15 as stated: every block that is not a heading (bullet, numbered, link,
\* paragraph, blank) renders, from its display text alone, to the same kind.
C15_NonHeadingKindStable ==
  AgentRendered =>
    \A i \in 1..Len(view.blocks) :
      (view.blocks[i].kind # "heading")
        => AloneKindIs(view.blocks[i].text, view.blocks[i].kind)

\* C15 amended: every bullet, numbered, paragraph and blank block renders,
\* from its display text alone, to the same kind.
C15_TextKindStable ==
  AgentRendered =>
    \A i \in 1..Len(view.blocks) :
      (view.blocks[i].kind \in {"bullet", "numbered", "paragraph", "blank"})
        => AloneKindIs(view.blocks[i].text, view.blocks[i].kind)

C15_Witness ==
  /\ AgentRendered
  /\ Len(view.blocks) = 4
  /\ view.blocks[1].kind = "bullet"
  /\ view.blocks[2].kind = "numbered"
  /\ view.blocks[2].text[1] = " "
  /\ view.blocks[3].kind = "paragraph"
  /\ view.blocks[4].kind = "blank"

\* the whole line is one bold span: ** text ** with no ** inside
IsOneBoldSpan(line) ==
  /\ Len(line) >= 4
  /\ line[1] = "*" /\ line[2] = "*"
  /\ line[Len(line) - 1] = "*" /\ line[Len(line)] = "*"
  /\ \A i \in 3..(Len(line) - 3) : ~(line[i] = "*" /\ line[i + 1] = "*")

\* C16: a line is a heading exactly when it is one bold span, and the
\* heading's text is the line without its two delimiters.
C16_HeadingIffOneBoldSpan ==
  AgentRendered =>
    \A i \in 1..Len(doc.lines) :
      /\ (view.blocks[i].kind = "heading") <=> IsOneBoldSpan(doc.lines[i])
      /\ (view.blocks[i].kind = "heading")
           => view.blocks[i].text
                = SubSeq(doc.lines[i], 3, Len(doc.lines[i]) - 2)

\* positions a, b of a bracketed label followed at once by ( ... )
IsLinkAt(line, a, b) ==
  /\ a < b
  /\ line[a] = "[" /\ line[b] = "]"
  /\ \A h \in (a + 1)..(b - 1) : line[h] \notin {"[", "]"}
  /\ b + 1 <= Len(line) /\ line[b + 1] = "("
  /\ \E c \in (b + 2)..Len(line) : line[c] = ")"

HasLink(line) ==
  \E a \in 1..Len(line), b \in 1..Len(line) : IsLinkAt(line, a, b)

\* C17: a line holding [label](target) that is not a heading, bullet or
\* numbered line is a link block whose text is the label.
C17_AnyLinkRendered ==
  AgentRendered =>
    \A i \in 1..Len(doc.lines) :
      (HasLink(doc.lines[i])
         /\ view.blocks[i].kind \notin {"heading", "bullet", "numbered"})
      => /\ view.blocks[i].kind = "link"
         /\ \E a \in 1..Len(doc.lines[i]), b \in 1..Len(doc.lines[i]) :
              /\ IsLinkAt(doc.lines[i], a, b)
              /\ view.blocks[i].text = SubSeq(doc.lines[i], a + 1, b - 1)

\* the panels an entry's data calls for
ExpectedPanels(data) ==
  IF ~present(data, "type") THEN {}
  ELSE IF data.type = "installation" THEN {"partCard"}
  ELSE IF data.type = "compatibility" THEN {"productList"}
  ELSE IF data.type = "troubleshooting"
    THEN {"diagnosisSteps", "recommendedParts"}
  ELSE {}

\* C18: in both components a bot entry is shown with the panels of its
\* payload's intent: part card, product list, diagnosis steps with
\* recommended parts, or none for general.
C18_EveryIntentHasPanel ==
  view.done => view.panels = ExpectedPanels(doc.data)

\* C19: isLoading is true exactly when the last entry is a user entry;
\* when it is false the transcript is the welcome entry followed by
\* complete user/bot pairs.
C19_LoadingIffUserLast ==
  /\ isLoading <=> (LastMessage.type = "user")
  /\ ~isLoading =>
       /\ Len(messages) % 2 = 1
       /\ \A k \in 1..((Len(messages) - 1) \div 2) :
            /\ messages[2 * k].type = "user"
            /\ messages[2 * k + 1].type = "bot"

C19_Witness ==
  /\ isLoading
  /\ Len(messages) = 4
  /\ LastMessage.type = "user"
  /\ messages[3].type = "bot"

\* C20: an accepted submission records the input as it is at submit time in
\* the user entry and in the dispatch, and clears the field; the dispatched
\* text stays that of the user entry, and the prototype's answer is
\* processQuery of it, whatever the input field holds by then.
C20_SubmittedTextDispatched ==
  [][ /\ (lastOp' = "send") =>
           /\ messages'[Len(messages')].content = input
           /\ pending'[Len(pending')].query = input
           /\ input' = <<>>
      /\ (pending' # <<>>) =>
           pending'[1].query = messages'[Len(messages')].content
      /\ (lastOp' = "timer") =>
           messages'[Len(messages')].data
             = processQuery(messages[Len(messages)].content) ]_vars

C20_Witness ==
  /\ lastOp = "timer"
  /\ LastMessage.data.type = "installation"
  /\ messages[Len(messages) - 1].content = QuickInstall
  /\ input = <<" ", "h", "i", " ">>

====
